---- MODULE Spec2Model ----
(***************************************************************************)
(* A model of the two command-line tools of nb-pro-image-gen-skill:        *)
(*   scripts/chat_image.py      the interactive session (Spec)             *)
(*   scripts/generate_image.py  the batch generator                        *)
(* The Image Generation Service, the input source and the file system are  *)
(* the environment: what they return or raise is chosen with \E.           *)
(***************************************************************************)
EXTENDS Integers, Sequences, FiniteSets, TLC

(***************************************************************************)
(* Bounds of the model.                                                    *)
(***************************************************************************)
\* Successful generation turns on one conversation handle.
MaxTurns == 2

(***************************************************************************)
(* Python's str operations, on TLA+ strings (character i of s is           *)
(* SubSeq(s, i, i)).                                                       *)
(***************************************************************************)
Char(s, i) == SubSeq(s, i, i)

Whitespace == {" ", "\t"}

Uppercase == "ABCDEFGHIJKLMNOPQRSTUVWXYZ"

Lowercase == "abcdefghijklmnopqrstuvwxyz"

\* The position of character c in alphabet, 0 when it is not there.
IndexIn(c, alphabet) ==
    LET at == {i \in 1..Len(alphabet) : Char(alphabet, i) = c}
    IN  IF at = {} THEN 0 ELSE CHOOSE i \in at : TRUE

LowerChar(c) ==
    IF IndexIn(c, Uppercase) = 0 THEN c ELSE Char(Lowercase, IndexIn(c, Uppercase))

UpperChar(c) ==
    IF IndexIn(c, Lowercase) = 0 THEN c ELSE Char(Uppercase, IndexIn(c, Lowercase))

RECURSIVE Lower(_)
\* str.lower()
Lower(s) ==
    IF Len(s) <= 1 THEN LowerChar(s)
    ELSE Lower(SubSeq(s, 1, Len(s) \div 2)) \o Lower(SubSeq(s, Len(s) \div 2 + 1, Len(s)))

RECURSIVE Upper(_)
\* str.upper()
Upper(s) ==
    IF Len(s) <= 1 THEN UpperChar(s)
    ELSE Upper(SubSeq(s, 1, Len(s) \div 2)) \o Upper(SubSeq(s, Len(s) \div 2 + 1, Len(s)))

RECURSIVE LStrip(_)
LStrip(s) == IF s # "" /\ Head(s) \in Whitespace THEN LStrip(Tail(s)) ELSE s

RECURSIVE RStrip(_)
RStrip(s) ==
    IF s # "" /\ Char(s, Len(s)) \in Whitespace
    THEN RStrip(SubSeq(s, 1, Len(s) - 1))
    ELSE s

\* str.strip()
Strip(s) == RStrip(LStrip(s))

\* s[:n]
Truncate(s, n) == IF Len(s) <= n THEN s ELSE SubSeq(s, 1, n)

\* str.startswith(prefix)
StartsWith(s, prefix) ==
    Len(s) >= Len(prefix) /\ SubSeq(s, 1, Len(prefix)) = prefix

\* sub in s
Contains(sub, s) ==
    \E i \in 1..(Len(s) - Len(sub) + 1) : SubSeq(s, i, i + Len(sub) - 1) = sub

\* The first position of s holding a character of set chars, 0 when none does.
FirstOf(s, chars) ==
    LET at == {i \in 1..Len(s) : Char(s, i) \in chars}
    IN  IF at = {} THEN 0 ELSE CHOOSE i \in at : \A j \in at : i <= j

\* str.split(maxsplit=1) of a string with no leading whitespace: the first
\* word, and the rest after the run of whitespace that follows it.
SplitOnce(s) ==
    LET w == FirstOf(s, Whitespace)
    IN  IF w = 0
        THEN <<s>>
        ELSE LET rest == LStrip(SubSeq(s, w, Len(s)))
             IN  IF rest = "" THEN <<SubSeq(s, 1, w - 1)>>
                 ELSE <<SubSeq(s, 1, w - 1), rest>>

(***************************************************************************)
(* The interactive session: scripts/chat_image.py                          *)
(***************************************************************************)
VARIABLES
    api_key,             \* get_api_key(): "" when the variable is not set
    pc,                  \* "start", "loop" (at the prompt), "done", "exit1"
    config,              \* the configuration dictionary
    chat,                \* the conversation handle
    last_image,          \* the last generated image, NoImage for None
    conversation_turns,  \* the turn counter
    \* What the last pass through the loop did:
    branch,              \* the branch of the loop body it took
    user_input,          \* the stripped line it read
    raised,              \* the exception its try block saw, "none" if none
    creates,             \* the client.chats.create calls it made
    requests,            \* the chat.send_message calls it made
    fs_ops,              \* the file system calls it made
    printed              \* what it printed

\* The batch generator: scripts/generate_image.py
VARIABLES
    bpc,                 \* where main is: "template", "smart", "validate",
                         \* "key", "inputs", "generate", "exited"; "off"
                         \* while the interactive session is modelled
    args,                \* the parsed command line (args.prompt and
                         \* args.aspect are assigned by main)
    env_key,             \* GEMINI_API_KEY in the environment, "" if unset
    smart_defaults,      \* <<>> until get_smart_defaults returned
    output_resolution,   \* image_size of the request
    gen_requests,        \* the generate_content calls made
    files,               \* the file system calls made
    output,              \* what was printed (stdout and stderr)
    uncaught,            \* the exception that ended main, "none" if none
    exit_code            \* the exit status, -1 while main runs

\* Two runs on the same inputs, for comparing them
VARIABLE
    twin                 \* the pair of runs; [mode |-> "off"] while one run
                         \* is modelled

batchVars == <<bpc, args, env_key, smart_defaults, output_resolution,
               gen_requests, files, output, uncaught, exit_code>>

state == <<config, chat, last_image, conversation_turns>>

log == <<branch, user_input, raised, creates, requests, fs_ops, printed>>

chatVars == <<api_key, pc, config, chat, last_image, conversation_turns,
              branch, user_input, raised, creates, requests, fs_ops, printed>>

vars == <<chatVars, batchVars, twin>>

valid_ratios ==
    {"1:1", "2:3", "3:2", "3:4", "4:3", "4:5", "5:4", "9:16", "16:9", "21:9"}

valid_resolutions == {"1K", "2K", "4K"}

valid_thinking == {"high", "medium", "low"}

\* No second run.
TwinOff == [mode |-> "off"]

NoImage == [src |-> "None", mode |-> "None", intact |-> FALSE]

\* The lines the input source may deliver.
Lines ==
    { "", "  ", "exit", " QUIT ", "exit now",
      "/help", "/config",
      "/aspect 16:9", "/ASPECT  1:1", "/aspect 7:3", "/aspect",
      "/resolution 2k", "/resolution 1K", "/resolution 8K",
      "/thinking low", "/thinking HIGH",
      "/search", "/clear",
      "/save", "/save out.png", "/save shots/out.png", "/save /",
      "/foo",
      "a red fox" }

\* Lines 95-108: the stripped line, and what the loop takes it for.
Classify(raw) ==
    LET line == Strip(raw)
        parts == SplitOnce(line)
    IN  IF line = ""
        THEN [kind |-> "empty", line |-> line, command |-> "", arg |-> ""]
        ELSE IF Lower(line) \in {"exit", "quit"}
        THEN [kind |-> "exit", line |-> line, command |-> "", arg |-> ""]
        ELSE IF StartsWith(line, "/")
        THEN [kind |-> "command", line |-> line,
              command |-> Lower(parts[1]),
              arg |-> IF Len(parts) > 1 THEN parts[2] ELSE ""]
        ELSE [kind |-> "turn", line |-> line, command |-> "", arg |-> ""]

\* Classify, computed once for every line.
Parsed == [raw \in Lines |-> Classify(raw)]

IsCommand(raw, command) ==
    Parsed[raw].kind = "command" /\ Parsed[raw].command = command

(***************************************************************************)
(* The service's responses and the image library.                          *)
(***************************************************************************)
\* How a call of the service (or an interrupt signal during it) ends.
ServiceResults == {"ok", "error", "interrupt"}

\* The exception a call that did not return raises into the try block.
RaisedBy(result) == IF result = "interrupt" THEN "KeyboardInterrupt" ELSE "Exception"

\* base64.b64decode
B64Decode(data) == SubSeq(data, 5, Len(data) - 1)

\* What PILImage.open makes of the bytes it can identify; png_cut is a file
\* whose header reads and whose pixel data is truncated: it opens, and
\* raises when its pixels are loaded (on save, split and convert).
DecodedImages ==
    [bytes \in {"png_rgb", "png_rgba", "png_p", "png_cut"} |->
        [src |-> bytes,
         mode |-> IF bytes = "png_rgba" THEN "RGBA"
                  ELSE IF bytes = "png_p" THEN "P" ELSE "RGB",
         intact |-> bytes # "png_cut"]]

\* The RGB image the PNG file is written from.
ToRGB(image) == [image EXCEPT !.mode = "RGB"]

\* A part of a response: text and inline_data are <<>> for None, and hold
\* the one value otherwise; inline_data.data is raw bytes or a base64 string.
TextPart == [text |-> <<"Here is your image.">>, inline_data |-> <<>>]

EmptyPart == [text |-> <<>>, inline_data |-> <<>>]

ImagePart(repr, data) ==
    [text |-> <<>>, inline_data |-> <<[repr |-> repr, data |-> data]>>]

\* response.parts: the responses the service may return.
Responses ==
    { <<>>,
      <<TextPart>>,
      <<EmptyPart>>,
      <<ImagePart("bytes", "png_rgb")>>,
      <<TextPart, ImagePart("str", "b64(png_rgba)")>>,
      <<ImagePart("bytes", "png_p"), TextPart>>,
      <<ImagePart("bytes", "png_cut")>>,
      <<ImagePart("bytes", "junk")>>,
      <<ImagePart("bytes", "png_rgb"), ImagePart("bytes", "junk")>>,
      <<ImagePart("bytes", "png_rgba"), ImagePart("bytes", "png_rgb")>> }

(***************************************************************************)
(* The loop's exception handlers and the commands' effects.                *)
(***************************************************************************)
\* A loop that ends on every exception.
ExceptionHandlerBreaks(exc) == "done"

\* Lines 252-256: where the loop is after its try block saw exception exc.
ExceptionHandler(exc) == IF exc = "KeyboardInterrupt" THEN "done" ELSE "loop"

\* What the handler of exc prints.
HandlerPrints(exc) ==
    IF exc = "KeyboardInterrupt" THEN <<"Goodbye!">> ELSE <<"Error: (stderr)">>

\* client.chats.create(model, config) with the configuration's values.
NewChat(cfg) ==
    [aspect_ratio |-> cfg.aspect_ratio, image_size |-> cfg.resolution, history |-> 0]

CreateCall(cfg, result) ==
    [aspect_ratio |-> cfg.aspect_ratio, image_size |-> cfg.resolution,
     result |-> result]

\* One pass through the loop, as the log variables record it.
Logged(taken, line, exc, cr, rq, fs, pr) ==
    /\ branch' = taken
    /\ user_input' = line
    /\ raised' = exc
    /\ creates' = cr
    /\ requests' = rq
    /\ fs_ops' = fs
    /\ printed' = pr
    /\ pc' = IF exc = "none" THEN "loop" ELSE ExceptionHandler(exc)

\* The batch generator while the interactive session is modelled.
BatchOff ==
    /\ bpc = "off"
    /\ args = <<>>
    /\ env_key = ""
    /\ smart_defaults = <<>>
    /\ output_resolution = ""
    /\ gen_requests = <<>>
    /\ files = <<>>
    /\ output = <<>>
    /\ uncaught = "none"
    /\ exit_code = -1

\* Lines 47-90.
Init ==
    /\ BatchOff
    /\ twin = TwinOff
    /\ api_key \in {"", "secret"}
    /\ pc = "start"
    /\ config = [aspect_ratio |-> "1:1", resolution |-> "1K",
                 thinking |-> "high", search |-> FALSE]
    /\ chat = NewChat(config)
    /\ last_image = NoImage
    /\ conversation_turns = 0
    /\ branch = "start"
    /\ user_input = ""
    /\ raised = "none"
    /\ creates = <<>>
    /\ requests = <<>>
    /\ fs_ops = <<>>
    /\ printed = <<>>

\* Lines 49-87: the credential check and the first conversation handle.
Startup ==
    /\ pc = "start"
    /\ IF api_key = ""
       THEN /\ pc' = "exit1"
            /\ printed' = <<"Error: GEMINI_API_KEY environment variable not set.">>
            /\ creates' = <<>>
       ELSE /\ pc' = "loop"
            /\ printed' = <<"Nano Banana Pro - Interactive Chat Mode">>
            /\ creates' = <<CreateCall(config, "ok")>>
    /\ UNCHANGED <<twin, batchVars, api_key, state, branch, user_input, raised, requests, fs_ops>>

\* Line 95 when input() raises KeyboardInterrupt: lines 252-254.
Interrupt ==
    /\ pc = "loop"
    /\ Logged("input", user_input, "KeyboardInterrupt", <<>>, <<>>, <<>>,
              HandlerPrints("KeyboardInterrupt"))
    /\ UNCHANGED <<twin, batchVars, api_key, state>>

\* Line 95 when input() raises EOFError: lines 255-256.
EndOfInput ==
    /\ pc = "loop"
    /\ Logged("input", user_input, "Exception", <<>>, <<>>, <<>>, HandlerPrints("Exception"))
    /\ UNCHANGED <<twin, batchVars, api_key, state>>

\* Lines 97-98.
EmptyLine(raw) ==
    /\ pc = "loop"
    /\ Parsed[raw].kind = "empty"
    /\ Logged("empty", Parsed[raw].line, "none", <<>>, <<>>, <<>>, <<>>)
    /\ UNCHANGED <<twin, batchVars, api_key, state>>

\* Lines 101-103.
Exit(raw) ==
    /\ pc = "loop"
    /\ Parsed[raw].kind = "exit"
    /\ branch' = "exit"
    /\ user_input' = Parsed[raw].line
    /\ pc' = "done"
    /\ printed' = <<"Goodbye!">>
    /\ raised' = "none"
    /\ creates' = <<>>
    /\ requests' = <<>>
    /\ fs_ops' = <<>>
    /\ UNCHANGED <<twin, batchVars, api_key, state>>

\* Lines 110-111.
Help(raw) ==
    /\ pc = "loop"
    /\ IsCommand(raw, "/help")
    /\ Logged("/help", Parsed[raw].line, "none", <<>>, <<>>, <<>>, <<"(usage)">>)
    /\ UNCHANGED <<twin, batchVars, api_key, state>>

\* Lines 113-119.
Config(raw) ==
    /\ pc = "loop"
    /\ IsCommand(raw, "/config")
    /\ Logged("/config", Parsed[raw].line, "none", <<>>, <<>>, <<>>,
              << "Current configuration:",
                 "  Aspect ratio: " \o config.aspect_ratio,
                 "  Resolution: " \o config.resolution,
                 "  Thinking: " \o config.thinking,
                 "  Search: " \o (IF config.search THEN "True" ELSE "False"),
                 "  Turns: " \o ToString(conversation_turns) >>)
    /\ UNCHANGED <<twin, batchVars, api_key, state>>

(***************************************************************************)
(* The session state the commands and turns act on.                        *)
(***************************************************************************)
Session ==
    [config |-> config, chat |-> chat, last_image |-> last_image,
     conversation_turns |-> conversation_turns]

Becomes(s) ==
    /\ config' = s.config
    /\ chat' = s.chat
    /\ last_image' = s.last_image
    /\ conversation_turns' = s.conversation_turns

\* Lines 121-140: the session after /aspect arg, whose chats.create ends in
\* result.
AspectCommand(s, arg, result) ==
    IF arg \notin valid_ratios THEN s
    ELSE LET s1 == [s EXCEPT !.config.aspect_ratio = arg]
         IN  IF result # "ok" THEN s1
             ELSE [s1 EXCEPT !.chat = NewChat(s1.config), !.conversation_turns = 0]

\* /resolution without the membership test of line 143.
ResolutionCommandUnchecked(s, arg) == [s EXCEPT !.config.resolution = Upper(arg)]

\* Lines 142-147.
ResolutionCommand(s, arg) ==
    IF Upper(arg) \in valid_resolutions
    THEN [s EXCEPT !.config.resolution = Upper(arg)]
    ELSE s

\* Lines 149-154.
ThinkingCommand(s, arg) ==
    IF arg \in valid_thinking THEN [s EXCEPT !.config.thinking = arg] ELSE s

\* Lines 156-158.
SearchCommand(s) == [s EXCEPT !.config.search = ~s.config.search]

\* Lines 160-173.
ClearCommand(s, result) ==
    IF result # "ok" THEN s
    ELSE [s EXCEPT !.chat = NewChat(s.config), !.last_image = NoImage,
                   !.conversation_turns = 0]

Aspect(raw) ==
    /\ pc = "loop"
    /\ IsCommand(raw, "/aspect")
    /\ LET arg == Parsed[raw].arg
           valid == arg \in valid_ratios
       IN  \E result \in IF valid THEN ServiceResults ELSE {"ok"} :
             /\ Becomes(AspectCommand(Session, arg, result))
             /\ Logged("/aspect", Parsed[raw].line,
                       IF result = "ok" THEN "none" ELSE RaisedBy(result),
                       IF valid
                       THEN <<CreateCall([config EXCEPT !.aspect_ratio = arg], result)>>
                       ELSE <<>>,
                       <<>>, <<>>,
                       IF ~valid THEN <<"Invalid aspect ratio. Valid options: ...">>
                       ELSE IF result = "ok"
                       THEN <<"Aspect ratio set to: " \o arg,
                              "Note: Chat history cleared due to config change">>
                       ELSE HandlerPrints(RaisedBy(result)))
    /\ UNCHANGED <<twin, api_key, batchVars>>

Resolution(raw) ==
    /\ pc = "loop"
    /\ IsCommand(raw, "/resolution")
    /\ Becomes(ResolutionCommand(Session, Parsed[raw].arg))
    /\ Logged("/resolution", Parsed[raw].line, "none", <<>>, <<>>, <<>>,
              IF Upper(Parsed[raw].arg) \in valid_resolutions
              THEN <<"Resolution set to: " \o Upper(Parsed[raw].arg)>>
              ELSE <<"Invalid resolution. Options: 1K, 2K, 4K">>)
    /\ UNCHANGED <<twin, api_key, batchVars>>

Thinking(raw) ==
    /\ pc = "loop"
    /\ IsCommand(raw, "/thinking")
    /\ Becomes(ThinkingCommand(Session, Parsed[raw].arg))
    /\ Logged("/thinking", Parsed[raw].line, "none", <<>>, <<>>, <<>>,
              IF Parsed[raw].arg \in valid_thinking
              THEN <<"Thinking mode set to: " \o Parsed[raw].arg>>
              ELSE <<"Invalid thinking level. Options: high, medium, low">>)
    /\ UNCHANGED <<twin, api_key, batchVars>>

Search(raw) ==
    /\ pc = "loop"
    /\ IsCommand(raw, "/search")
    /\ Becomes(SearchCommand(Session))
    /\ Logged("/search", Parsed[raw].line, "none", <<>>, <<>>, <<>>,
              <<"Google Search grounding: "
                  \o (IF config.search THEN "disabled" ELSE "enabled")>>)
    /\ UNCHANGED <<twin, api_key, batchVars>>

Clear(raw) ==
    /\ pc = "loop"
    /\ IsCommand(raw, "/clear")
    /\ \E result \in ServiceResults :
         /\ Becomes(ClearCommand(Session, result))
         /\ Logged("/clear", Parsed[raw].line,
                   IF result = "ok" THEN "none" ELSE RaisedBy(result),
                   <<CreateCall(config, result)>>, <<>>, <<>>,
                   IF result = "ok" THEN <<"Conversation history cleared.">>
                   ELSE HandlerPrints(RaisedBy(result)))
    /\ UNCHANGED <<twin, api_key, batchVars>>

\* Lines 192-193.
Commands ==
    {"/help", "/config", "/aspect", "/resolution", "/thinking", "/search",
     "/clear", "/save"}

Unknown(raw) ==
    /\ pc = "loop"
    /\ Parsed[raw].kind = "command"
    /\ Parsed[raw].command \notin Commands
    /\ Logged("unknown", Parsed[raw].line, "none", <<>>, <<>>, <<>>,
              <<"Unknown command: " \o Parsed[raw].command
                  \o ". Type /help for available commands.">>)
    /\ UNCHANGED <<twin, batchVars, api_key, state>>

(***************************************************************************)
(* /save: lines 175-190.                                                   *)
(***************************************************************************)
\* datetime.now().strftime("%Y-%m-%d-%H-%M-%S")
Clock == {"2026-11-05-12-00-00"}

\* Directories of the file system the session runs on.
ExistingDirs == {"/", ".", "/tmp"}

LastSlash(path) ==
    LET at == {i \in 1..Len(path) : Char(path, i) = "/"}
    IN  IF at = {} THEN 0 ELSE CHOOSE i \in at : \A j \in at : j <= i

\* Path(path).parent
Parent(path) ==
    IF LastSlash(path) = 0 THEN "."
    ELSE IF LastSlash(path) = 1 THEN "/"
    ELSE SubSeq(path, 1, LastSlash(path) - 1)

\* image.save(path, "PNG") raises: the path is a directory, or the pixels
\* cannot be loaded.
SaveRaises(image, path) == path \in ExistingDirs \/ ~image.intact

MkdirOp(path) == [op |-> "mkdir", path |-> Parent(path), image |-> NoImage]

WriteOp(path, image) == [op |-> "write", path |-> path, image |-> image]

\* A /save that writes whatever the image and the path are.
SaveOpsAlways(image, path) == <<MkdirOp(path), WriteOp(path, image)>>

\* The file system calls of /save path with last image image.
SaveOps(image, path) ==
    IF image = NoImage THEN <<>>
    ELSE IF SaveRaises(image, path) THEN <<MkdirOp(path)>>
    ELSE <<MkdirOp(path), WriteOp(path, image)>>

Save(raw) ==
    /\ pc = "loop"
    /\ IsCommand(raw, "/save")
    /\ \E timestamp \in Clock :
         LET arg == IF Parsed[raw].arg = "" THEN timestamp \o "-image.png"
                    ELSE Parsed[raw].arg
         IN  Logged("/save", Parsed[raw].line,
                    IF last_image # NoImage /\ SaveRaises(last_image, arg)
                    THEN "Exception" ELSE "none",
                    <<>>, <<>>,
                    SaveOps(last_image, arg),
                    IF last_image = NoImage
                    THEN <<"No image to save. Generate an image first.">>
                    ELSE IF SaveRaises(last_image, arg)
                    THEN HandlerPrints("Exception")
                    ELSE <<"Saved: " \o arg, "MEDIA: " \o arg>>)
    /\ UNCHANGED <<twin, batchVars, api_key, state>>

(***************************************************************************)
(* A generation turn: lines 197-250.                                       *)
(***************************************************************************)
\* A message configuration that would carry the thinking level.
MessageConfigWithThinking(cfg, handle) ==
    [aspect_ratio |-> cfg.aspect_ratio, image_size |-> cfg.resolution,
     tools |-> IF cfg.search THEN <<"google_search">> ELSE <<>>,
     thinking |-> cfg.thinking]

\* A message configuration taken from the handle's creation settings.
MessageConfigOfHandle(cfg, handle) ==
    [aspect_ratio |-> handle.aspect_ratio, image_size |-> handle.image_size,
     tools |-> IF cfg.search THEN <<"google_search">> ELSE <<>>]

\* Lines 201-210: message_config.
MessageConfig(cfg, handle) ==
    [aspect_ratio |-> cfg.aspect_ratio, image_size |-> cfg.resolution,
     tools |-> IF cfg.search THEN <<"google_search">> ELSE <<>>]

\* A counter that also counts the sends that raise.
TurnsAfterSendAlways(turns, result) == turns + 1

\* Line 217, reached only when send_message returned.
TurnsAfterSend(turns, result) == IF result = "ok" THEN turns + 1 ELSE turns

\* Lines 222-247: one part of the response, on st = the last image, the
\* file system calls, the output, image_saved and the exception so far.
ChatPart(part, turn, st) ==
    IF part.text # <<>> /\ part.text[1] # ""
    THEN [st EXCEPT !.printed = Append(@, part.text[1])]
    ELSE IF part.inline_data = <<>>
    THEN st
    ELSE LET image_data == IF part.inline_data[1].repr = "str"
                           THEN B64Decode(part.inline_data[1].data)
                           ELSE part.inline_data[1].data
         IN  IF image_data \notin DOMAIN DecodedImages
             THEN [st EXCEPT !.raised = "Exception"]
             ELSE LET image == DecodedImages[image_data]
                      temp_path == "/tmp/nano-banana-chat-" \o ToString(turn) \o ".png"
                  IN  IF ~image.intact
                      THEN [st EXCEPT !.last_image = image, !.raised = "Exception"]
                      ELSE [st EXCEPT
                              !.last_image = image,
                              !.fs_ops = Append(@, WriteOp(temp_path, ToRGB(image))),
                              !.printed = Append(@, "Image generated (Turn "
                                                      \o ToString(turn) \o ")"),
                              !.image_saved = TRUE]

RECURSIVE ChatParts(_, _, _)
\* Lines 221-250: the parts in order, until one raises.
ChatParts(parts, turn, st) ==
    IF st.raised # "none" THEN [st EXCEPT !.printed = @ \o HandlerPrints("Exception")]
    ELSE IF parts = <<>>
    THEN IF st.image_saved THEN st
         ELSE [st EXCEPT !.printed = Append(@, "No image was generated in the response.")]
    ELSE ChatParts(Tail(parts), turn, ChatPart(Head(parts), turn, st))

GenerateTurn(raw) ==
    /\ pc = "loop"
    /\ Parsed[raw].kind = "turn"
    /\ conversation_turns < MaxTurns
    /\ LET generating == "Generating image (aspect: " \o config.aspect_ratio
                           \o ", resolution: " \o config.resolution \o ")..."
           request(result) == [message |-> Parsed[raw].line,
                               config |-> MessageConfig(config, chat),
                               result |-> result]
       IN  \/ \E result \in ServiceResults \ {"ok"} :
                /\ conversation_turns' = TurnsAfterSend(conversation_turns, result)
                /\ Logged("turn", Parsed[raw].line, RaisedBy(result), <<>>, <<request(result)>>, <<>>,
                          <<generating>> \o HandlerPrints(RaisedBy(result)))
                /\ UNCHANGED <<config, chat, last_image>>
           \/ \E response \in Responses :
                LET turn == TurnsAfterSend(conversation_turns, "ok")
                    st == ChatParts(response, turn,
                                    [last_image |-> last_image, fs_ops |-> <<>>,
                                     printed |-> <<generating>>,
                                     image_saved |-> FALSE, raised |-> "none"])
                IN  /\ conversation_turns' = turn
                    /\ chat' = [chat EXCEPT !.history = @ + 1]
                    /\ last_image' = st.last_image
                    /\ Logged("turn", Parsed[raw].line, st.raised, <<>>, <<request("ok")>>,
                              st.fs_ops, st.printed)
                    /\ UNCHANGED config
    /\ UNCHANGED <<twin, api_key, batchVars>>

Next ==
    \/ Startup
    \/ Interrupt
    \/ EndOfInput
    \/ \E raw \in Lines : EmptyLine(raw)
    \/ \E raw \in Lines : Exit(raw)
    \/ \E raw \in Lines : Help(raw)
    \/ \E raw \in Lines : Config(raw)
    \/ \E raw \in Lines : Aspect(raw)
    \/ \E raw \in Lines : Resolution(raw)
    \/ \E raw \in Lines : Thinking(raw)
    \/ \E raw \in Lines : Search(raw)
    \/ \E raw \in Lines : Clear(raw)
    \/ \E raw \in Lines : Save(raw)
    \/ \E raw \in Lines : Unknown(raw)
    \/ \E raw \in Lines : GenerateTurn(raw)

Spec == Init /\ [][Next]_vars

(***************************************************************************)
(* The batch generator's pure functions: scripts/generate_image.py         *)
(***************************************************************************)
\* Lines 36-63.
TEMPLATES ==
    [photorealistic |->
        "{subject}, {action}, in {setting}, shot from {camera_angle}. "
        \o "Photorealistic style with {lighting}, {lens} lens. {mood}. "
        \o "Ultra high detail, sharp focus, professional photography.",
     product |->
        "Professional product photo of {product} on {surface}, "
        \o "{lighting} setup, {angle}, {style} aesthetic, "
        \o "high-end commercial photography, sharp focus.",
     logo |->
        "Clean {style} logo featuring {elements}, {colors}, "
        \o "{typography}, minimalist design on {background}, "
        \o "vector style, scalable.",
     social |->
        "Vertical {aspect} social media graphic. "
        \o "Top: {headline}. Middle: {visual}. Bottom: {details}. "
        \o "Bold typography, high contrast, engaging layout.",
     portrait |->
        "Professional portrait of {subject}, {pose}, "
        \o "shot with {lens} lens, {lighting}, "
        \o "{background} background, {mood} atmosphere, "
        \o "high fashion editorial style."]

RECURSIVE Fields(_)
\* re.findall(r'\{(\w+)\}', template): the placeholders, in template order.
Fields(t) ==
    LET open == FirstOf(t, {"{"})
        after == SubSeq(t, open + 1, Len(t))
        close == FirstOf(after, {"}"})
    IN  IF open = 0 THEN <<>>
        ELSE <<SubSeq(after, 1, close - 1)>> \o Fields(SubSeq(after, close + 1, Len(after)))

RECURSIVE Format(_, _)
\* str.format(**kwargs): the fields are looked up from left to right, and the
\* first one kwargs lacks raises KeyError.
Format(t, kwargs) ==
    LET open == FirstOf(t, {"{"})
        after == SubSeq(t, open + 1, Len(t))
        close == FirstOf(after, {"}"})
        name == SubSeq(after, 1, close - 1)
        rest == Format(SubSeq(after, close + 1, Len(after)), kwargs)
    IN  IF open = 0 THEN [ok |-> TRUE, value |-> t, key |-> ""]
        ELSE IF name \notin DOMAIN kwargs
        THEN [ok |-> FALSE, value |-> "", key |-> name]
        ELSE IF ~rest.ok THEN rest
        ELSE [ok |-> TRUE,
              value |-> SubSeq(t, 1, open - 1) \o kwargs[name] \o rest.value,
              key |-> ""]

\* Lines 66-73, called as apply_template(args.template, **template_vars): a
\* key template_name collides with the positional parameter, and the call
\* raises TypeError before the body runs.
ApplyTemplate(template_name, kwargs) ==
    IF "template_name" \in DOMAIN kwargs
    THEN [raises |-> "TypeError", value |-> "",
          message |-> "apply_template() got multiple values for argument 'template_name'"]
    ELSE IF template_name \notin DOMAIN TEMPLATES
    THEN [raises |-> "ValueError", value |-> "",
          message |-> "Unknown template: " \o template_name]
    ELSE LET r == Format(TEMPLATES[template_name], kwargs)
         IN  IF r.ok
             THEN [raises |-> "none", value |-> r.value, message |-> ""]
             ELSE [raises |-> "ValueError", value |-> "",
                   message |-> "Missing required parameter for " \o template_name
                                 \o " template: '" \o r.key \o "'"]

\* any(word in s for word in words)
AnyIn(words, s) == \E word \in words : Contains(word, s)

\* The same categories with the landscape test ahead of the logo test.
GetSmartDefaultsLandscapeFirst(prompt) ==
    LET prompt_lower == Lower(prompt)
        defaults == [aspect_ratio |-> "1:1", thinking |-> "high",
                     add_text_guidance |-> FALSE]
    IN  IF AnyIn({"landscape", "scenic", "panorama", "cinematic"}, prompt_lower)
        THEN [defaults EXCEPT !.aspect_ratio = "16:9"]
        ELSE IF AnyIn({"logo", "icon", "emblem"}, prompt_lower)
        THEN [defaults EXCEPT !.add_text_guidance = TRUE]
        ELSE IF AnyIn({"portrait", "headshot", "person"}, prompt_lower)
        THEN [defaults EXCEPT !.aspect_ratio = "3:4"]
        ELSE IF AnyIn({"story", "reel", "tiktok", "vertical"}, prompt_lower)
        THEN [defaults EXCEPT !.aspect_ratio = "9:16"]
        ELSE IF AnyIn({"product", "mockup", "packaging"}, prompt_lower)
        THEN [defaults EXCEPT !.aspect_ratio = "4:3", !.add_text_guidance = TRUE]
        ELSE IF AnyIn({"infographic", "diagram", "chart"}, prompt_lower)
        THEN [defaults EXCEPT !.aspect_ratio = "16:9", !.add_text_guidance = TRUE]
        ELSE defaults

\* Lines 83-109.
GetSmartDefaults(prompt) ==
    LET prompt_lower == Lower(prompt)
        defaults == [aspect_ratio |-> "1:1", thinking |-> "high",
                     add_text_guidance |-> FALSE]
    IN  IF AnyIn({"logo", "icon", "emblem"}, prompt_lower)
        THEN [defaults EXCEPT !.aspect_ratio = "1:1", !.thinking = "high",
                              !.add_text_guidance = TRUE]
        ELSE IF AnyIn({"portrait", "headshot", "person"}, prompt_lower)
        THEN [defaults EXCEPT !.aspect_ratio = "3:4", !.thinking = "high"]
        ELSE IF AnyIn({"landscape", "scenic", "panorama", "cinematic"}, prompt_lower)
        THEN [defaults EXCEPT !.aspect_ratio = "16:9"]
        ELSE IF AnyIn({"story", "reel", "tiktok", "vertical"}, prompt_lower)
        THEN [defaults EXCEPT !.aspect_ratio = "9:16"]
        ELSE IF AnyIn({"product", "mockup", "packaging"}, prompt_lower)
        THEN [defaults EXCEPT !.aspect_ratio = "4:3", !.thinking = "high",
                              !.add_text_guidance = TRUE]
        ELSE IF AnyIn({"infographic", "diagram", "chart"}, prompt_lower)
        THEN [defaults EXCEPT !.aspect_ratio = "16:9", !.thinking = "high",
                              !.add_text_guidance = TRUE]
        ELSE defaults

\* len(prompt.split())
WordCount(s) ==
    Cardinality({i \in 1..Len(s) :
                   /\ Char(s, i) \notin Whitespace
                   /\ (i = 1 \/ Char(s, i - 1) \in Whitespace)})

\* Lines 112-140: the warnings, in order.
ValidatePrompt(prompt) ==
    LET prompt_lower == Lower(prompt)
        text_count ==
            Cardinality({w \in {"text", "font", "typography", "label", "title", "heading"} :
                           Contains(w, prompt_lower)})
        conflict ==
            \/ /\ AnyIn({"photorealistic", "realistic", "photo"}, prompt_lower)
               /\ AnyIn({"cartoon", "anime", "illustration", "sketch"}, prompt_lower)
            \/ /\ AnyIn({"oil painting", "painting"}, prompt_lower)
               /\ AnyIn({"3d render", "cgi", "digital art"}, prompt_lower)
        vague == /\ AnyIn({"nice", "good", "beautiful", "cool"}, prompt_lower)
                 /\ WordCount(prompt) < 10
    IN  (IF text_count > 3 THEN <<"Warning: You have many text elements.">> ELSE <<>>)
        \o (IF conflict THEN <<"Warning: Conflicting styles detected.">> ELSE <<>>)
        \o (IF vague THEN <<"Warning: Prompt is vague.">> ELSE <<>>)

\* Lines 76-80.
GetApiKey(provided_key, environment) ==
    IF provided_key # "" THEN provided_key ELSE environment

(***************************************************************************)
(* The batch generator's main: lines 143-440.                              *)
(***************************************************************************)
\* The interactive session while the batch generator is modelled.
ChatOff ==
    /\ api_key = ""
    /\ pc = "off"
    /\ config = <<>>
    /\ chat = <<>>
    /\ last_image = NoImage
    /\ conversation_turns = 0
    /\ branch = "off"
    /\ user_input = ""
    /\ raised = "none"
    /\ creates = <<>>
    /\ requests = <<>>
    /\ fs_ops = <<>>
    /\ printed = <<>>

\* The prompts given with --prompt.
Prompts ==
    { "", "a cat", "a LOGO in a wide landscape", "Epic landscape", "Silicon chips",
      "company emblem", "portrait of a cat", "Headshot",
      "a person walking on a scenic road", "panorama of Cinematic hills",
      "history of art", "reel cover", "TikTok banner", "vertical poster of a product",
      "packaging mockup", "infographic about sales", "pie chart with text labels",
      "diagram of a portrait studio", "a nice cool image" }

\* An input image file: whether PILImage.open reads it, and its size.
SmallImage == [path |-> "small.png", readable |-> TRUE, width |-> 800, height |-> 600]

MediumImage == [path |-> "medium.png", readable |-> TRUE, width |-> 1200, height |-> 1600]

LargeImage == [path |-> "large.png", readable |-> TRUE, width |-> 4000, height |-> 3000]

BrokenImage == [path |-> "broken.png", readable |-> FALSE, width |-> 0, height |-> 0]

\* Lines 335-337: the most input images main accepts.
MaxInputImages == 14

InputImageLists ==
    { <<>>, <<SmallImage>>, <<SmallImage, MediumImage>>, <<LargeImage, SmallImage>>,
      <<SmallImage, BrokenImage>>,
      [i \in 1..MaxInputImages |-> SmallImage],
      [i \in 1..(MaxInputImages + 1) |-> SmallImage] }

\* seq without its k-th element.
Without(seq, k) == SubSeq(seq, 1, k - 1) \o SubSeq(seq, k + 1, Len(seq))

\* The --template-var lists given with template name: every placeholder,
\* none, one missing, extra keys, an item with no "=".
VarLists(name) ==
    LET fields == Fields(TEMPLATES[name])
        full == [k \in 1..Len(fields) |-> fields[k] \o "=some " \o fields[k]]
    IN  {full, <<>>, <<"bogus=1">>, <<full[Len(full)]>>,
         Append(full, "extra=1"), <<"extra=1=2">> \o full,
         Append(full, "template_name=logo"), Append(full, "novalue")}
        \cup {Without(full, k) : k \in 1..Len(full)}

BaseArgs ==
    [prompt |-> "a cat", filename |-> "out.png", input_images |-> <<>>,
     resolution |-> "1K", aspect |-> "", thinking |-> "high", system |-> "",
     search |-> FALSE, template |-> "", template_var |-> <<>>, smart |-> FALSE,
     no_validate |-> FALSE, api_key |-> "key"]

\* The command lines main is run with ("" for an option that is not given).
BatchArgs ==
    {[BaseArgs EXCEPT !.prompt = p, !.aspect = a, !.smart = sm] :
        p \in Prompts, a \in {"", "4:5"}, sm \in BOOLEAN}
    \cup
    {[BaseArgs EXCEPT !.template = t[1], !.template_var = t[2], !.prompt = p] :
        t \in UNION {{<<name, v>> : v \in VarLists(name)} : name \in DOMAIN TEMPLATES},
        p \in {"", "a cat"}}
    \cup
    {[BaseArgs EXCEPT !.prompt = "a nice logo", !.filename = "shots/out.png",
                      !.input_images = ii, !.resolution = r, !.thinking = th,
                      !.system = sy, !.search = se, !.api_key = k,
                      !.no_validate = nv] :
        ii \in InputImageLists, r \in {"1K", "4K"}, th \in {"high", "low"},
        sy \in {"", "Use flat colours"}, se \in BOOLEAN, k \in {"", "key"},
        nv \in BOOLEAN}

\* Line 250: after parse_args.
BatchInit ==
    /\ ChatOff
    /\ twin = TwinOff
    /\ bpc = "template"
    /\ args \in BatchArgs
    /\ env_key \in {"", "envkey"}
    /\ smart_defaults = <<>>
    /\ output_resolution = ""
    /\ gen_requests = <<>>
    /\ files = <<>>
    /\ output = <<>>
    /\ uncaught = "none"
    /\ exit_code = -1

\* sys.exit(code) after printing text.
Exits(code, text) ==
    /\ bpc' = "exited"
    /\ exit_code' = code
    /\ output' = output \o text

\* Lines 265-268: the first item with no "=", 0 when every item has one.
FirstMalformed(items) ==
    LET bad == {k \in 1..Len(items) : ~Contains("=", items[k])}
    IN  IF bad = {} THEN 0 ELSE CHOOSE k \in bad : \A j \in bad : k <= j

RECURSIVE TemplateVars(_, _)
\* Lines 264-270: the dictionary of the KEY=VALUE items, a later item
\* overriding an earlier one of the same key.
TemplateVars(items, dict) ==
    IF items = <<>> THEN dict
    ELSE LET var == Head(items)
             eq == FirstOf(var, {"="})
             key == SubSeq(var, 1, eq - 1)
             value == SubSeq(var, eq + 1, Len(var))
         IN  TemplateVars(Tail(items),
                          [k \in DOMAIN dict \cup {key} |->
                              IF k = key THEN value ELSE dict[k]])

\* Lines 252-281.
HandleTemplate ==
    /\ bpc = "template"
    /\ IF args.template # "" /\ args.template_var = <<>>
       THEN /\ Exits(1, <<"Error: --template requires --template-var arguments">>)
            /\ UNCHANGED <<args, uncaught>>
       ELSE IF args.template # "" /\ FirstMalformed(args.template_var) # 0
       THEN /\ Exits(1, <<"Error: Template variable must be in format KEY=VALUE: "
                            \o args.template_var[FirstMalformed(args.template_var)]>>)
            /\ UNCHANGED <<args, uncaught>>
       ELSE LET applied == IF args.template = ""
                           THEN [raises |-> "none", value |-> args.prompt, message |-> ""]
                           ELSE ApplyTemplate(args.template,
                                              TemplateVars(args.template_var, <<>>))
            IN  IF applied.raises = "ValueError"
                THEN /\ Exits(1, <<"Error: " \o applied.message>>)
                     /\ UNCHANGED <<args, uncaught>>
                ELSE IF applied.raises # "none"
                THEN /\ Exits(1, <<"Traceback: " \o applied.message>>)
                     /\ uncaught' = applied.raises
                     /\ UNCHANGED args
                ELSE IF applied.value = ""
                THEN /\ Exits(1, <<"Error: --prompt or --template is required">>)
                     /\ UNCHANGED <<args, uncaught>>
                ELSE /\ args' = [args EXCEPT !.prompt = applied.value]
                     /\ bpc' = "smart"
                     /\ output' = IF args.template = "" THEN output
                                  ELSE <<"Generated prompt from template: "
                                           \o Truncate(applied.value, 100) \o "...">>
                     /\ UNCHANGED <<exit_code, uncaught>>
    /\ UNCHANGED <<twin, chatVars, env_key, smart_defaults, output_resolution,
                   gen_requests, files>>

\* Lines 283-291.
SmartDefaults ==
    /\ bpc = "smart"
    /\ bpc' = "validate"
    /\ IF args.smart \/ args.aspect = ""
       THEN LET defaults == GetSmartDefaults(args.prompt)
                guide == /\ defaults.add_text_guidance
                         /\ ~Contains("text", Lower(args.prompt))
            IN  /\ smart_defaults' = <<defaults>>
                /\ args' = [args EXCEPT
                              !.aspect = IF @ = "" THEN defaults.aspect_ratio ELSE @,
                              !.prompt = IF guide
                                         THEN @ \o " Ensure any text is large, bold, and highly readable."
                                         ELSE @]
                /\ output' = output
                     \o (IF args.aspect = ""
                         THEN <<"Auto-selected aspect ratio: " \o defaults.aspect_ratio>>
                         ELSE <<>>)
                     \o (IF guide THEN <<"Added text rendering guidance to prompt">>
                         ELSE <<>>)
       ELSE UNCHANGED <<smart_defaults, args, output>>
    /\ UNCHANGED <<twin, chatVars, env_key, output_resolution, gen_requests, files,
                   uncaught, exit_code>>

\* Lines 293-308.
Validate ==
    /\ bpc = "validate"
    /\ bpc' = "key"
    /\ output' = output
         \o (IF ~args.no_validate THEN ValidatePrompt(args.prompt) ELSE <<>>)
         \o << "Configuration:", "  Resolution: " \o args.resolution,
               "  Aspect ratio: " \o args.aspect, "  Thinking: " \o args.thinking >>
         \o (IF args.search THEN <<"  Google Search: enabled">> ELSE <<>>)
         \o (IF args.system # ""
             THEN <<"  System prompt: " \o Truncate(args.system, 50) \o "...">>
             ELSE <<>>)
    /\ UNCHANGED <<twin, chatVars, args, env_key, smart_defaults, output_resolution,
                   gen_requests, files, uncaught, exit_code>>

\* Lines 310-325.
Credential ==
    /\ bpc = "key"
    /\ IF GetApiKey(args.api_key, env_key) = ""
       THEN Exits(1, <<"Error: No API key provided.">>)
       ELSE bpc' = "inputs" /\ UNCHANGED <<output, exit_code>>
    /\ UNCHANGED <<twin, chatVars, args, env_key, smart_defaults, output_resolution,
                   gen_requests, files, uncaught>>

\* Lines 355 and 357: the input sizes from which the output resolution is
\* raised.
Dim4K == 3000

Dim2K == 1500

RECURSIVE MaxInputDim(_)
\* Lines 339-348: the largest side of the input images.
MaxInputDim(images) ==
    IF images = <<>> THEN 0
    ELSE LET img == Head(images)
             side == IF img.width >= img.height THEN img.width ELSE img.height
             rest == MaxInputDim(Tail(images))
         IN  IF side >= rest THEN side ELSE rest

\* Lines 333 and 353-360.
OutputResolution(resolution, images) ==
    IF resolution = "1K" /\ MaxInputDim(images) > 0
    THEN IF MaxInputDim(images) >= Dim4K THEN "4K"
         ELSE IF MaxInputDim(images) >= Dim2K THEN "2K"
         ELSE "1K"
    ELSE resolution

\* Lines 327-361.
LoadInputs ==
    /\ bpc = "inputs"
    /\ files' = Append(files, MkdirOp(args.filename))
    /\ IF Len(args.input_images) > MaxInputImages
       THEN /\ Exits(1, <<"Error: Too many input images ("
                            \o ToString(Len(args.input_images)) \o "). Maximum is 14.">>)
            /\ UNCHANGED output_resolution
       ELSE IF \E k \in DOMAIN args.input_images : ~args.input_images[k].readable
       THEN LET bad == CHOOSE k \in DOMAIN args.input_images :
                          /\ ~args.input_images[k].readable
                          /\ \A j \in 1..(k - 1) : args.input_images[j].readable
            IN  /\ Exits(1, [j \in 1..(bad - 1) |->
                               "Loaded input image: " \o args.input_images[j].path]
                            \o <<"Error loading input image '"
                                   \o args.input_images[bad].path \o "'">>)
                /\ UNCHANGED output_resolution
       ELSE /\ bpc' = "generate"
            /\ output_resolution' = OutputResolution(args.resolution, args.input_images)
            /\ output' = output
                 \o [j \in DOMAIN args.input_images |->
                       "Loaded input image: " \o args.input_images[j].path]
                 \o (IF args.resolution = "1K" /\ args.input_images # <<>>
                     THEN <<"Auto-detected resolution: "
                              \o OutputResolution(args.resolution, args.input_images)>>
                     ELSE <<>>)
            /\ UNCHANGED exit_code
    /\ UNCHANGED <<twin, chatVars, args, env_key, smart_defaults, gen_requests, uncaught>>

\* Lines 363-391: the request of the run.
GenRequest ==
    [model |-> "gemini-3-pro-image-preview",
     contents |-> [images |-> [j \in DOMAIN args.input_images |->
                                  args.input_images[j].path],
                   prompt |-> args.prompt],
     image_size |-> output_resolution,
     aspect_ratio |-> args.aspect,
     system_instruction |-> args.system,
     tools |-> IF args.search THEN <<"google_search">> ELSE <<>>]

\* response.parts the batch run may receive: those of the session, and a
\* part whose text is the empty string beside its image.
BatchResponses ==
    Responses \cup
    { <<[text |-> <<"">>, inline_data |-> <<[repr |-> "bytes", data |-> "png_rgb"]>>]>> }

\* Lines 403-427: one part; st is [files, output, image_saved, raised].
BatchPart(part, output_path, st) ==
    IF part.text # <<>>
    THEN [st EXCEPT !.output = Append(@, "Model response: " \o part.text[1])]
    ELSE IF part.inline_data = <<>>
    THEN st
    ELSE LET image_data == IF part.inline_data[1].repr = "str"
                           THEN B64Decode(part.inline_data[1].data)
                           ELSE part.inline_data[1].data
         IN  IF image_data \notin DOMAIN DecodedImages
             THEN [st EXCEPT !.raised = TRUE]
             ELSE IF SaveRaises(DecodedImages[image_data], output_path)
             THEN [st EXCEPT !.raised = TRUE]
             ELSE [st EXCEPT
                     !.files = Append(@, WriteOp(output_path,
                                                 ToRGB(DecodedImages[image_data]))),
                     !.image_saved = TRUE]

RECURSIVE BatchParts(_, _, _)
\* Lines 402-427: the parts in order, until one raises.
BatchParts(parts, output_path, st) ==
    IF st.raised \/ parts = <<>> THEN st
    ELSE BatchParts(Tail(parts), output_path, BatchPart(Head(parts), output_path, st))

\* Lines 363-440.
Generate ==
    /\ bpc = "generate"
    /\ bpc' = "exited"
    /\ \E result \in {"ok", "error"} :
       \E response \in IF result = "ok" THEN BatchResponses ELSE {<<>>} :
          LET st == IF result = "ok"
                    THEN BatchParts(response, args.filename,
                                    [files |-> files, output |-> <<>>,
                                     image_saved |-> FALSE, raised |-> FALSE])
                    ELSE [files |-> files, output |-> <<>>,
                          image_saved |-> FALSE, raised |-> TRUE]
              announce == IF args.input_images # <<>>
                          THEN "Processing " \o ToString(Len(args.input_images))
                                 \o " image" \o (IF Len(args.input_images) > 1
                                                 THEN "s" ELSE "")
                                 \o " with resolution " \o output_resolution \o "..."
                          ELSE "Generating image with resolution "
                                 \o output_resolution \o "..."
          IN  /\ gen_requests' = Append(gen_requests,
                                        [request |-> GenRequest, result |-> result,
                                         response |-> response])
              /\ files' = st.files
              /\ output' = output \o <<announce>> \o st.output
                   \o (IF st.raised THEN <<"Error generating image">>
                       ELSE IF st.image_saved
                       THEN <<"Image saved: " \o args.filename,
                              "MEDIA: " \o args.filename>>
                       ELSE <<"Error: No image was generated in the response.">>)
              /\ exit_code' = IF st.raised \/ ~st.image_saved THEN 1 ELSE 0
    /\ UNCHANGED <<twin, chatVars, args, env_key, smart_defaults, output_resolution, uncaught>>

BatchNext ==
    \/ HandleTemplate
    \/ SmartDefaults
    \/ Validate
    \/ Credential
    \/ LoadInputs
    \/ Generate

SpecBatch == BatchInit /\ [][BatchNext]_vars

(***************************************************************************)
(* Properties of the interactive session.                                  *)
(***************************************************************************)
\* The argument of the line the last pass read, and its upper case.
LastArg == Parsed[CHOOSE raw \in Lines : Parsed[raw].line = user_input].arg

UpperArg == [raw \in Lines |-> Upper(Parsed[raw].arg)]

LastArgUpper == UpperArg[CHOOSE raw \in Lines : Parsed[raw].line = user_input]

LowerLine == [raw \in Lines |-> Lower(Parsed[raw].line)]

LastLineLower == LowerLine[CHOOSE raw \in Lines : Parsed[raw].line = user_input]

\* The last pass created a conversation handle.
Recreated == creates # <<>> /\ creates[Len(creates)].result = "ok"

Writes(ops) == {i \in DOMAIN ops : ops[i].op = "write"}

\* C1: every command that recreates the conversation handle (a valid
\* /aspect, or /clear) leaves the turn counter at zero and the last image
\* empty, so that a /save right after it has nothing to save.
C1_RecreateResetsTurnsAndImage ==
    (pc = "loop" /\ branch \in {"/aspect", "/clear"} /\ Recreated)
        => /\ conversation_turns = 0
           /\ last_image = NoImage
           /\ SaveOps(last_image, "out.png") = <<>>

\* C2: a command that changes a generation parameter (a valid /aspect, a
\* valid /resolution) and /clear discard the conversation handle, create a
\* fresh one and reset the turn counter to zero.
C2_ParameterChangeRecreatesHandle ==
    (/\ pc = "loop"
     /\ raised = "none"
     /\ \/ branch = "/aspect" /\ LastArg \in valid_ratios
        \/ branch = "/resolution" /\ LastArgUpper \in valid_resolutions
        \/ branch = "/clear")
        => /\ Recreated
           /\ chat = NewChat(config)
           /\ conversation_turns = 0

\* The last pass ran a configuration command with an invalid argument.
InvalidArgument ==
    \/ branch = "/aspect" /\ LastArg \notin valid_ratios
    \/ branch = "/resolution" /\ LastArgUpper \notin valid_resolutions
    \/ branch = "/thinking" /\ LastArg \notin valid_thinking

\* C3: a configuration command with an invalid argument leaves the
\* configuration, the conversation handle, the turn counter and the last
\* image as they were, and the loop continues.
C3_InvalidArgumentChangesNothing ==
    [][(pc = "loop" /\ InvalidArgument')
          => (state' = state /\ pc' = "loop" /\ raised' = "none"
              /\ creates' = <<>> /\ requests' = <<>>)]_vars

C3_Witness ==
    /\ pc = "loop"
    /\ InvalidArgument
    /\ branch = "/resolution"
    /\ config.aspect_ratio = "16:9"
    /\ config.resolution = "2K"
    /\ config.search
    /\ last_image # NoImage

\* The service call of the last pass raised an exception.
SendFailed == branch = "turn" /\ requests # <<>> /\ requests[1].result = "error"

\* C5: when the service call of a generation turn raises an exception, the
\* exception is caught, one request and no more was sent for the line, the
\* session state is unchanged and the loop goes on to the next line.
C5_FailedSendChangesNothing ==
    [][(pc = "loop" /\ SendFailed')
          => (/\ Len(requests') = 1
              /\ raised' = "Exception"
              /\ state' = state
              /\ fs_ops' = <<>>
              /\ pc' = "loop")]_vars

C5_Witness ==
    /\ pc = "loop"
    /\ SendFailed
    /\ conversation_turns = 1
    /\ last_image # NoImage

\* C6: the loop ends only on a line that is exit or quit, whatever its case,
\* or on an interrupt signal; no other line and no exception ends it.
C6_LoopEndsOnlyOnExitOrInterrupt ==
    [][(pc = "loop" /\ pc' # "loop")
          => /\ pc' = "done"
             /\ \/ (branch' = "exit" /\ LastLineLower' \in {"exit", "quit"}
                    /\ raised' = "none")
                \/ raised' = "KeyboardInterrupt"]_vars

C6_Witness ==
    /\ pc = "done"
    /\ branch = "exit"
    /\ user_input = "QUIT"
    /\ conversation_turns > 0

\* C7 as stated: /save writes exactly one PNG file when a last image exists
\* and nothing when none exists; the session state is unchanged and the loop
\* continues.
C7_SaveWritesExactlyOne ==
    [][(pc = "loop" /\ branch' = "/save")
          => (/\ last_image # NoImage => Cardinality(Writes(fs_ops')) = 1
              /\ last_image = NoImage => fs_ops' = <<>>
              /\ state' = state
              /\ pc' = "loop")]_vars

\* C7, amended: /save writes exactly one PNG file when a last image exists
\* and the write raises nothing, no file when the write raises, and makes no
\* file system call when no image exists; in every case the session state
\* is unchanged and the loop continues.
C7_SaveWritesOneUnlessItRaises ==
    [][(pc = "loop" /\ branch' = "/save")
          => (/\ (last_image # NoImage /\ raised' = "none")
                    => /\ Cardinality(Writes(fs_ops')) = 1
                       /\ \A i \in Writes(fs_ops') : fs_ops'[i].image = last_image
              /\ (last_image # NoImage /\ raised' # "none")
                    => (Writes(fs_ops') = {} /\ raised' = "Exception")
              /\ last_image = NoImage => (fs_ops' = <<>> /\ raised' = "none")
              /\ state' = state
              /\ pc' = "loop")]_vars

C7_Witness ==
    /\ pc = "loop"
    /\ branch = "/save"
    /\ last_image # NoImage
    /\ last_image.intact
    /\ raised = "Exception"
    /\ Writes(fs_ops) = {}

\* C8: every request of a generation turn carries the aspect ratio, the
\* resolution and the search setting the configuration holds when it is
\* sent, whatever the conversation handle was created with.
C8_RequestCarriesCurrentConfig ==
    [][(pc = "loop" /\ branch' = "turn")
          => \A i \in DOMAIN requests' :
               /\ requests'[i].config.aspect_ratio = config.aspect_ratio
               /\ requests'[i].config.image_size = config.resolution
               /\ requests'[i].config.tools
                    = IF config.search THEN <<"google_search">> ELSE <<>>]_vars

C8_Witness ==
    /\ branch = "turn"
    /\ requests # <<>>
    /\ requests[1].result = "ok"
    /\ config.resolution # chat.image_size
    /\ requests[1].config.image_size = "2K"
    /\ config.search

(***************************************************************************)
(* Properties of the batch generator.                                      *)
(***************************************************************************)
\* The write calls of ops that create or overwrite path.
WritesTo(ops, path) == {i \in DOMAIN ops : ops[i].op = "write" /\ ops[i].path = path}

\* C4: the batch run writes no partial output: whenever the process has
\* exited with code 1, the output file has not been created or overwritten.
C4_NoPartialOutput ==
    exit_code = 1 => WritesTo(files, args.filename) = {}

\* The six keyword categories in priority order, each with the settings
\* get_smart_defaults returns for it (lines 89-107).
Categories ==
    << [words |-> {"logo", "icon", "emblem"},
        result |-> [aspect_ratio |-> "1:1", thinking |-> "high",
                    add_text_guidance |-> TRUE]],
       [words |-> {"portrait", "headshot", "person"},
        result |-> [aspect_ratio |-> "3:4", thinking |-> "high",
                    add_text_guidance |-> FALSE]],
       [words |-> {"landscape", "scenic", "panorama", "cinematic"},
        result |-> [aspect_ratio |-> "16:9", thinking |-> "high",
                    add_text_guidance |-> FALSE]],
       [words |-> {"story", "reel", "tiktok", "vertical"},
        result |-> [aspect_ratio |-> "9:16", thinking |-> "high",
                    add_text_guidance |-> FALSE]],
       [words |-> {"product", "mockup", "packaging"},
        result |-> [aspect_ratio |-> "4:3", thinking |-> "high",
                    add_text_guidance |-> TRUE]],
       [words |-> {"infographic", "diagram", "chart"},
        result |-> [aspect_ratio |-> "16:9", thinking |-> "high",
                    add_text_guidance |-> TRUE]] >>

\* Line 86: the settings when no category matches.
Baseline == [aspect_ratio |-> "1:1", thinking |-> "high", add_text_guidance |-> FALSE]

\* The categories with a keyword in the lower-cased prompt.
Matching(prompt) ==
    {c \in DOMAIN Categories : AnyIn(Categories[c].words, Lower(prompt))}

\* The result of the earliest matching category, the baseline when none
\* matches.
FirstMatch(prompt) ==
    IF Matching(prompt) = {} THEN Baseline
    ELSE Categories[CHOOSE c \in Matching(prompt) :
                       \A d \in Matching(prompt) : c <= d].result

\* C9: get_smart_defaults returns, for every prompt, the result of the
\* earliest of the six categories (in the order logo, portrait, landscape,
\* story, product, infographic) that has a keyword in the lower-cased
\* prompt, and the baseline (1:1, high, no text guidance) when none has; a
\* prompt with a logo keyword gets 1:1 with text guidance even when it holds
\* a landscape keyword too.
C9_SmartDefaultsFirstMatch ==
    [][(bpc = "smart" /\ bpc' = "validate" /\ smart_defaults' # <<>>)
          => /\ smart_defaults'[1] = FirstMatch(args.prompt)
             /\ AnyIn({"logo", "icon", "emblem"}, Lower(args.prompt))
                  => /\ smart_defaults'[1].aspect_ratio = "1:1"
                     /\ smart_defaults'[1].add_text_guidance
             /\ Matching(args.prompt) = {} => smart_defaults'[1] = Baseline]_vars

C9_Witness ==
    /\ bpc = "validate"
    /\ smart_defaults # <<>>
    /\ Contains("logo", Lower(args.prompt))
    /\ Contains("landscape", Lower(args.prompt))
    /\ smart_defaults[1] = Categories[1].result

\* The keys of the KEY=VALUE items.
SuppliedKeys(items) ==
    {SubSeq(items[k], 1, FirstOf(items[k], {"="}) - 1) : k \in DOMAIN items}

\* The placeholders of the named template that keys lacks, by position.
MissingFields(name, keys) ==
    {k \in DOMAIN Fields(TEMPLATES[name]) : Fields(TEMPLATES[name])[k] \notin keys}

\* C10: for every template of the catalog and every variable mapping, the
\* expansion succeeds exactly when the mapping has a value for every
\* placeholder (extra keys are ignored); otherwise it fails with the
\* missing-parameter error naming the first placeholder the mapping lacks,
\* and the batch run exits with code 1 before any service call.
C10_TemplateSucceedsIffComplete ==
    (/\ bpc # "template"
     /\ args.template # ""
     /\ args.template_var # <<>>
     /\ FirstMalformed(args.template_var) = 0)
    => LET missing == MissingFields(args.template, SuppliedKeys(args.template_var))
           first == CHOOSE k \in missing : \A j \in missing : k <= j
       IN  IF missing = {}
           THEN /\ uncaught = "none"
                /\ output # <<>>
                /\ StartsWith(output[1], "Generated prompt from template: ")
           ELSE /\ bpc = "exited"
                /\ exit_code = 1
                /\ uncaught = "none"
                /\ gen_requests = <<>>
                /\ output = <<"Error: Missing required parameter for "
                                \o args.template \o " template: '"
                                \o Fields(TEMPLATES[args.template])[first] \o "'">>

(***************************************************************************)
(* The turn counter, the handle's aspect ratio and the end of the input.   *)
(***************************************************************************)
\* C12: on a generation turn the turn counter is incremented only as the
\* last step of processing an image part, after the image became the last
\* image and its preview was persisted; a turn that persists no preview (its
\* response has no image part) leaves the counter unchanged.
C12_TurnCountedAfterImage ==
    [][(pc = "loop" /\ branch' = "turn")
          => /\ Writes(fs_ops') = {} => conversation_turns' = conversation_turns
             /\ conversation_turns' # conversation_turns
                  => /\ last_image' # NoImage
                     /\ \E i \in Writes(fs_ops') :
                          fs_ops'[i].image = ToRGB(last_image')]_vars

\* C13: at every prompt the aspect ratio of the configuration is the one
\* the active conversation handle was created with, also after a /aspect or
\* /clear whose creation of the new handle raised.
C13_ConfigAspectIsHandleAspect ==
    pc = "loop" => config.aspect_ratio = chat.aspect_ratio

\* The input source is at end-of-file: the last read raised, and every
\* further read raises too.
AtEOF == pc = "loop" /\ branch = "input" /\ raised = "Exception"

\* The session on an input source that stays at end-of-file once it is
\* there: lines 92-95 and 255-256.
NextEOF ==
    \/ ~AtEOF /\ Next
    \/ AtEOF /\ EndOfInput

\* The loop keeps running: no pass is postponed forever.
SpecEOF == Init /\ [][NextEOF]_vars /\ WF_vars(NextEOF)

\* C14: once the input source is at end-of-file the loop eventually
\* terminates instead of reading and failing forever.
C14_EndOfInputTerminates == AtEOF ~> (pc = "done")

(***************************************************************************)
(* Two runs on the same inputs that differ in the thinking level only.     *)
(* Interactive session: both runs read the same lines and get the same     *)
(* service outcomes, pass by pass, except that where one reads a /thinking *)
(* command the other reads a /thinking command of its own.  Batch          *)
(* generator: main runs to its exit, and runs again on the same command    *)
(* line with another --thinking value.                                     *)
(***************************************************************************)
\* Lines 65-90: a run at its first prompt.
FirstPrompt ==
    [session |-> [config |-> [aspect_ratio |-> "1:1", resolution |-> "1K",
                              thinking |-> "high", search |-> FALSE],
                  chat |-> NewChat([aspect_ratio |-> "1:1", resolution |-> "1K"]),
                  last_image |-> NoImage,
                  conversation_turns |-> 0],
     pc |-> "loop", creates |-> <<>>, requests |-> <<>>]

\* Where the loop is after a pass whose try block saw exc: lines 252-256.
AfterPass(exc) == IF exc = "none" THEN "loop" ELSE ExceptionHandler(exc)

\* Lines 197-250: a generation turn of run on line, whose send_message ends
\* in result and returns response.
TurnPass(run, line, result, response) ==
    LET s == run.session
        request == [message |-> line, config |-> MessageConfig(s.config, s.chat),
                    result |-> result]
        turn == TurnsAfterSend(s.conversation_turns, result)
        st == ChatParts(response, turn,
                        [last_image |-> s.last_image, fs_ops |-> <<>>,
                         printed |-> <<>>, image_saved |-> FALSE, raised |-> "none"])
    IN  IF result # "ok"
        THEN [session |-> [s EXCEPT !.conversation_turns = turn],
              pc |-> AfterPass(RaisedBy(result)),
              creates |-> <<>>, requests |-> <<request>>]
        ELSE [session |-> [s EXCEPT !.conversation_turns = turn,
                                    !.chat.history = @ + 1,
                                    !.last_image = st.last_image],
              pc |-> AfterPass(st.raised),
              creates |-> <<>>, requests |-> <<request>>]

\* Lines 105-193: a command of run, whose chats.create (if it makes one)
\* ends in result.
CommandPass(run, command, arg, result) ==
    LET s == run.session
        failed == IF result = "ok" THEN "none" ELSE RaisedBy(result)
        quiet(t) == [session |-> t, pc |-> "loop", creates |-> <<>>, requests |-> <<>>]
    IN  IF command = "/aspect"
        THEN IF arg \notin valid_ratios THEN quiet(s)
             ELSE [session |-> AspectCommand(s, arg, result),
                   pc |-> AfterPass(failed),
                   creates |-> <<CreateCall([s.config EXCEPT !.aspect_ratio = arg],
                                            result)>>,
                   requests |-> <<>>]
        ELSE IF command = "/resolution" THEN quiet(ResolutionCommand(s, arg))
        ELSE IF command = "/thinking" THEN quiet(ThinkingCommand(s, arg))
        ELSE IF command = "/search" THEN quiet(SearchCommand(s))
        ELSE IF command = "/clear"
        THEN [session |-> ClearCommand(s, result),
              pc |-> AfterPass(failed),
              creates |-> <<CreateCall(s.config, result)>>,
              requests |-> <<>>]
        ELSE quiet(s)

\* Lines 92-256: one pass of the loop of run on the line raw.
Pass(run, raw, result, response) ==
    IF Parsed[raw].kind = "empty"
    THEN [run EXCEPT !.creates = <<>>, !.requests = <<>>]
    ELSE IF Parsed[raw].kind = "exit"
    THEN [run EXCEPT !.pc = "done", !.creates = <<>>, !.requests = <<>>]
    ELSE IF Parsed[raw].kind = "command"
    THEN CommandPass(run, Parsed[raw].command, Parsed[raw].arg, result)
    ELSE TurnPass(run, Parsed[raw].line, result, response)

\* The /thinking commands among the lines.
ThinkingLines == {raw \in Lines : IsCommand(raw, "/thinking")}

\* Whether the pass on raw calls the service.
CallsService(raw) ==
    \/ Parsed[raw].kind = "turn"
    \/ IsCommand(raw, "/clear")
    \/ IsCommand(raw, "/aspect") /\ Parsed[raw].arg \in valid_ratios

\* Both runs read the same line, and the service treats them alike.
TwinPass ==
    /\ twin.mode = "chat"
    /\ twin.a.pc = "loop"
    /\ twin.b.pc = "loop"
    /\ \E raw \in Lines \ ThinkingLines :
         /\ Parsed[raw].kind = "turn"
              => /\ twin.a.session.conversation_turns < MaxTurns
                 /\ twin.b.session.conversation_turns < MaxTurns
         /\ \E result \in IF CallsService(raw)
                          THEN ServiceResults ELSE {"ok"} :
            \E response \in IF Parsed[raw].kind = "turn" /\ result = "ok"
                            THEN Responses ELSE {<<>>} :
              twin' = [twin EXCEPT !.a = Pass(@, raw, result, response),
                                   !.b = Pass(@, raw, result, response)]
    /\ UNCHANGED <<chatVars, batchVars>>

\* Each run reads a /thinking command of its own.
TwinThinking ==
    /\ twin.mode = "chat"
    /\ twin.a.pc = "loop"
    /\ twin.b.pc = "loop"
    /\ \E raw_a \in ThinkingLines, raw_b \in ThinkingLines :
         twin' = [twin EXCEPT !.a = Pass(@, raw_a, "ok", <<>>),
                              !.b = Pass(@, raw_b, "ok", <<>>)]
    /\ UNCHANGED <<chatVars, batchVars>>

\* Line 200: the values of --thinking.
thinking_choices == {"high", "medium", "low"}

\* The requests of the generate_content calls.
Sent(calls) == [i \in DOMAIN calls |-> calls[i].request]

\* main has exited; it is run again on the command line it was given the
\* first time, but for another --thinking value, in the same environment.
Rerun ==
    /\ twin.mode = "batch"
    /\ twin.run = 1
    /\ bpc = "exited"
    /\ \E thinking \in thinking_choices \ {twin.args.thinking} :
         args' = [twin.args EXCEPT !.thinking = thinking]
    /\ twin' = [twin EXCEPT !.run = 2, !.first = Sent(gen_requests)]
    /\ bpc' = "template"
    /\ smart_defaults' = <<>>
    /\ output_resolution' = ""
    /\ gen_requests' = <<>>
    /\ files' = <<>>
    /\ output' = <<>>
    /\ uncaught' = "none"
    /\ exit_code' = -1
    /\ UNCHANGED <<chatVars, env_key>>

\* Either two interactive sessions at their first prompt, or the first of
\* two batch runs.
TwinInit ==
    /\ ChatOff
    /\ \/ /\ BatchOff
          /\ twin = [mode |-> "chat", a |-> FirstPrompt, b |-> FirstPrompt]
       \/ /\ bpc = "template"
          /\ args \in BatchArgs
          /\ env_key \in {"", "envkey"}
          /\ smart_defaults = <<>>
          /\ output_resolution = ""
          /\ gen_requests = <<>>
          /\ files = <<>>
          /\ output = <<>>
          /\ uncaught = "none"
          /\ exit_code = -1
          /\ twin = [mode |-> "batch", run |-> 1, args |-> args, first |-> <<>>]

TwinNext ==
    \/ TwinPass
    \/ TwinThinking
    \/ HandleTemplate
    \/ SmartDefaults
    \/ Validate
    \/ Credential
    \/ LoadInputs
    \/ Generate
    \/ Rerun

SpecTwin == TwinInit /\ [][TwinNext]_vars

====
